---- MODULE Spec2Model ----
(***************************************************************************)
(* A model of the ray tracer of src/src/view.rs and src/src/scene.rs.      *)
(*                                                                         *)
(* Numbers.  The program computes in f32.  The model runs the same code on *)
(* inputs for which every geometric quantity is an integer: the camera,    *)
(* the lights and the hit points lie on the z axis, every ray runs along   *)
(* the z axis, plane normals are (0,0,1) or (0,0,-1), and the field of     *)
(* view is 0 so that every primary ray is the view direction.  Vectors are *)
(* triples <<x, y, z>> of integers, distances are integers and INFINITY is *)
(* an integer above every finite distance.  Fractions are fixed-point:     *)
(*   - lambert and specular coefficients count in 1/CoefOne,               *)
(*   - the reflection weight counts in 1/WeightOne,                        *)
(*   - the illumination factor of lambert_shade counts in 1/LightOne       *)
(*     (the quotient by 4*PI*d^2 is rounded down),                         *)
(*   - a channel of the colour accumulator counts in                       *)
(*     1/(ColorMax * LightOne * CoefOne * WeightOne), so that the sum of   *)
(*     line 108 is an exact integer product.                               *)
(* A NaN only arises when a light sits exactly on the shaded point; that   *)
(* case is modelled by its outcome (every comparison with NaN is false).   *)
(***************************************************************************)
EXTENDS Integers, Sequences, FiniteSets, TLC

\* The state: a scene under construction, a view, and the locals of View::render.
VARIABLES
    scene,            \* Scene: [objects, lights]
    view,             \* View
    pc,               \* "build", then render's position: "pixel", "loop", "write", "done"
    x, y,             \* render: the loop indices
    ray,              \* render: let mut ray
    pixel_color,      \* render: let mut pixel_color
    depth,            \* render: let mut depth
    reflection_coef,  \* render: let mut reflection_coef
    img_buffer,       \* render: img_buffer, (x, y) -> Rgb
    calls,            \* history: color_trace calls made for the current pixel
    stopped,          \* history: a color_trace call of the current pixel returned false
    trail,            \* history: the hits of the current pixel, in order
    writes            \* history: (x, y) -> number of put_pixel calls

\* Bounds of the model.
MaxObjects == 2
MaxLights == 2
MaxDepth == 3

\* Numerals of the program in the model's fixed-point units.
INFINITY == 1000000
CoefOne == 2
LightOne == 1000
FourPiMilli == 12566
ColorMax == 255

Power(b, n) == b ^ n

\* 1.0 as a reflection weight: fine enough for MaxDepth products of coefficients.
WeightOne == Power(CoefOne, MaxDepth)

Min(a, b) == IF a < b THEN a ELSE b

-----------------------------------------------------------------------------
\* vecmath

vec3_add(a, b) == <<a[1] + b[1], a[2] + b[2], a[3] + b[3]>>
vec3_sub(a, b) == <<a[1] - b[1], a[2] - b[2], a[3] - b[3]>>
vec3_scale(a, s) == <<a[1] * s, a[2] * s, a[3] * s>>
vec3_neg(a) == <<-a[1], -a[2], -a[3]>>
vec3_dot(a, b) == a[1] * b[1] + a[2] * b[2] + a[3] * b[3]
vec3_cross(a, b) ==
    <<a[2] * b[3] - a[3] * b[2], a[3] * b[1] - a[1] * b[3], a[1] * b[2] - a[2] * b[1]>>
vec3_square_len(a) == vec3_dot(a, a)

\* sqrt, on the perfect squares the model's inputs produce
sqrt(n) == CHOOSE r \in 0..n : r * r = n

vec3_len(a) == sqrt(vec3_square_len(a))

\* a / |a| for a non-zero a whose quotient is integral (an axis vector)
vec3_normalized(a) ==
    LET l == vec3_len(a) IN <<a[1] \div l, a[2] \div l, a[3] \div l>>

ZeroVec == <<0, 0, 0>>

-----------------------------------------------------------------------------
\* view.rs: Ray

Ray_new(origin, direction) ==
    [origin |-> origin, direction |-> vec3_normalized(direction)]

-----------------------------------------------------------------------------
\* scene.rs: Light, Sphere, Plane

Light_new(position, intensity) == [position |-> position, intensity |-> intensity]

Sphere_new(position, color, radius, lambert, specular) ==
    [kind |-> "sphere", position |-> position, color |-> color, radius |-> radius,
     sq_radius |-> radius * radius, normal |-> ZeroVec,
     lambert |-> lambert, specular |-> specular]

\* width and height (INFINITY) are stored and never read; position is Plane.point
Plane_new(color, normal, point, lambert, specular) ==
    [kind |-> "plane", position |-> point, color |-> color, radius |-> 0,
     sq_radius |-> 0, normal |-> vec3_normalized(normal),
     lambert |-> lambert, specular |-> specular]

Sphere_intersect(self, a_ray) ==
    LET from_ray_origin == vec3_sub(self.position, a_ray.origin)
        on_ray_midpoint == vec3_dot(from_ray_origin, a_ray.direction)
        c_center_to_midpoint ==
            vec3_square_len(from_ray_origin) - on_ray_midpoint * on_ray_midpoint
        distance ==
            IF on_ray_midpoint > 0 /\ c_center_to_midpoint < self.sq_radius
            THEN on_ray_midpoint - sqrt(self.sq_radius - c_center_to_midpoint)
            ELSE INFINITY
    IN  [distance |-> distance,
         hit_position |-> vec3_add(a_ray.origin, vec3_scale(a_ray.direction, distance))]

Sphere_normal_to(self, hit_ray) ==
    vec3_normalized(vec3_sub(hit_ray.origin, self.position))

Sphere_reflect_ray(self, a_ray, point) ==
    LET temp_ray == Ray_new(point, a_ray.direction)
        reflection == 2 * vec3_dot(a_ray.direction, Sphere_normal_to(self, temp_ray))
        reflected_ray ==
            vec3_sub(a_ray.direction, vec3_scale(Sphere_normal_to(self, temp_ray), reflection))
    IN  Ray_new(point, reflected_ray)

\* norm_ray_dot is an integer here, so "> 1e-6" is "> 0"
Plane_accepts(norm_ray_dot) == norm_ray_dot > 0

Plane_intersect(self, a_ray) ==
    LET norm_ray_dot == vec3_dot(a_ray.direction, self.normal)
        to_center == vec3_sub(self.position, a_ray.origin)
        new_distance == vec3_dot(to_center, self.normal) \div norm_ray_dot
        distance ==
            IF Plane_accepts(norm_ray_dot) /\ new_distance > 0
            THEN new_distance ELSE INFINITY
    IN  [distance |-> distance,
         hit_position |-> vec3_add(a_ray.origin, vec3_scale(a_ray.direction, distance))]

Plane_normal_to(self, hit_ray) ==
    IF vec3_dot(hit_ray.direction, self.normal) < 0
    THEN self.normal ELSE vec3_neg(self.normal)

Plane_reflect_ray(self, a_ray, point) ==
    LET reflection == 2 * vec3_dot(a_ray.direction, Plane_normal_to(self, a_ray))
        reflected_ray ==
            vec3_sub(a_ray.direction, vec3_scale(Plane_normal_to(self, a_ray), reflection))
    IN  Ray_new(point, reflected_ray)

\* dyn Object dispatch
intersect(object, a_ray) ==
    IF object.kind = "sphere" THEN Sphere_intersect(object, a_ray)
    ELSE Plane_intersect(object, a_ray)

normal_to(object, hit_ray) ==
    IF object.kind = "sphere" THEN Sphere_normal_to(object, hit_ray)
    ELSE Plane_normal_to(object, hit_ray)

reflect_ray(object, a_ray, point) ==
    IF object.kind = "sphere" THEN Sphere_reflect_ray(object, a_ray, point)
    ELSE Plane_reflect_ray(object, a_ray, point)

-----------------------------------------------------------------------------
\* view.rs: View

\* fov is 0 in every view of the model: fov_rad = (0 * PI) / 180 = 0
View_new(image_width, image_height, cam_position, fov, direction, max_depth, background, shadow_bias) ==
    [image_width |-> image_width, image_height |-> image_height,
     cam_position |-> cam_position, fov_rad |-> fov,
     direction |-> vec3_normalized(direction), max_depth |-> max_depth,
     background |-> background, shadow_bias |-> shadow_bias]

\* Option<(Vecf, f32, Box<dyn Object>)>; index is the place of the cloned object
\* in scene.objects (0 for None)
None == [some |-> FALSE, hit_point |-> ZeroVec, dist |-> INFINITY, index |-> 0]
Some(hit_point, dist, index) ==
    [some |-> TRUE, hit_point |-> hit_point, dist |-> dist, index |-> index]

\* the test of line 125; CloserLe is the same test written with <=
CloserLe(distance, min_dist) == distance <= min_dist /\ distance > 0
Closer(distance, min_dist) == distance < min_dist /\ distance > 0

RECURSIVE trace_loop(_, _, _, _, _)
trace_loop(objects, a_ray, i, min_dist, closest_object) ==
    IF i > Len(objects) THEN closest_object
    ELSE LET r == intersect(objects[i], a_ray) IN
         IF Closer(r.distance, min_dist)
         THEN trace_loop(objects, a_ray, i + 1, r.distance,
                         Some(r.hit_position, r.distance, i))
         ELSE trace_loop(objects, a_ray, i + 1, min_dist, closest_object)

trace(self, a_scene, a_ray) == trace_loop(a_scene.objects, a_ray, 1, INFINITY, None)

\* sort_by(partial_cmp): ascending insertion
RECURSIVE insert_sorted(_, _)
insert_sorted(s, d) ==
    IF s = <<>> THEN <<d>>
    ELSE IF d < Head(s) THEN <<d>> \o s
    ELSE <<Head(s)>> \o insert_sorted(Tail(s), d)

RECURSIVE sort(_)
sort(s) == IF s = <<>> THEN <<>> ELSE insert_sorted(sort(Tail(s)), Head(s))

RECURSIVE all_intersects_loop(_, _, _)
all_intersects_loop(objects, a_ray, i) ==
    IF i > Len(objects) THEN <<>>
    ELSE LET distance == intersect(objects[i], a_ray).distance IN
         (IF distance > 0 /\ distance # INFINITY THEN <<distance>> ELSE <<>>)
             \o all_intersects_loop(objects, a_ray, i + 1)

all_intersects(self, a_scene, a_ray) == sort(all_intersects_loop(a_scene.objects, a_ray, 1))

\* the test of line 154, on one intersect of the shadow ray
Blocks(an_intersect, dist_to_light) == an_intersect < dist_to_light

\* the test of line 164
Adds(contribution) == contribution > 0

\* lines 148-168, for one light: the flag `blocked` after the loop over the sorted
\* intersects, `contribution` (lines 160-163), and `amount`, what the light adds
\* to lambert_amount.  A light exactly on the point makes dir_to_light NaN: no
\* intersect is pushed, `contribution > 0.0` is false, and nothing is added.
shade_light(self, a_scene, object, point, light) ==
    IF light.position = point
    THEN [nan |-> TRUE, blocked |-> FALSE, contribution |-> 0, amount |-> 0]
    ELSE
    LET dist_vec == vec3_sub(light.position, point)
        dir_to_light == vec3_normalized(dist_vec)
        dist_to_light == vec3_len(dist_vec)
        shadow_point == vec3_add(point, vec3_scale(dir_to_light, self.shadow_bias))
        intersects == all_intersects(self, a_scene, Ray_new(shadow_point, dir_to_light))
        blocked == \E k \in 1..Len(intersects) : Blocks(intersects[k], dist_to_light)
        contribution ==
            vec3_dot(dir_to_light,
                     normal_to(object, Ray_new(point, vec3_neg(dir_to_light))))
    IN  [nan |-> FALSE, blocked |-> blocked, contribution |-> contribution,
         amount |->
             IF ~blocked /\ Adds(contribution)
             \* intensity / (4 PI d^2), with 4 PI counted in thousandths
             THEN (contribution * light.intensity * LightOne * 1000)
                      \div (FourPiMilli * dist_to_light * dist_to_light)
             ELSE 0]

light_amount(self, a_scene, object, point, light) ==
    shade_light(self, a_scene, object, point, light).amount

RECURSIVE lambert_sum(_, _, _, _, _)
lambert_sum(self, a_scene, object, point, i) ==
    IF i > Len(a_scene.lights) THEN 0
    ELSE light_amount(self, a_scene, object, point, a_scene.lights[i])
             + lambert_sum(self, a_scene, object, point, i + 1)

lambert_shade(self, a_scene, object, point) ==
    Min(lambert_sum(self, a_scene, object, point, 1), LightOne)

\* The record color_trace returns: ret is the bool, reflection_coef, ray and
\* current_color are the three &mut arguments after the call, and hit is what
\* trace answered (kept for the history variables).

\* lines 115-117: no hit; color_trace_miss_darkens also zeroes the weight
color_trace_miss_darkens(a_reflection_coef, a_ray, current_color) ==
    [ret |-> FALSE, reflection_coef |-> 0, ray |-> a_ray, current_color |-> current_color,
     hit |-> None]
color_trace_miss(a_reflection_coef, a_ray, current_color) ==
    [ret |-> FALSE, reflection_coef |-> a_reflection_coef, ray |-> a_ray,
     current_color |-> current_color, hit |-> None]

\* lines 103-114: a hit; color_trace_hit_scaled_first is the same with lines 113
\* and 107-112 exchanged
color_trace_hit_scaled_first(self, a_scene, a_reflection_coef, a_ray, current_color, hit) ==
    LET hit_object == a_scene.objects[hit.index]
        light == lambert_shade(self, a_scene, hit_object, hit.hit_point)
        coef == (a_reflection_coef * hit_object.specular) \div CoefOne
    IN  [ret |-> TRUE, hit |-> hit,
         reflection_coef |-> coef,
         ray |-> reflect_ray(hit_object, a_ray, hit.hit_point),
         current_color |->
             [i \in 1..3 |-> current_color[i]
                  + hit_object.color[i] * light * hit_object.lambert * coef]]
color_trace_hit(self, a_scene, a_reflection_coef, a_ray, current_color, hit) ==
    LET hit_object == a_scene.objects[hit.index]
        object_color == hit_object.color
        light == lambert_shade(self, a_scene, hit_object, hit.hit_point)
    IN  [ret |-> TRUE, hit |-> hit,
         reflection_coef |-> (a_reflection_coef * hit_object.specular) \div CoefOne,
         ray |-> reflect_ray(hit_object, a_ray, hit.hit_point),
         current_color |->
             [i \in 1..3 |-> current_color[i]
                  + object_color[i] * light * hit_object.lambert * a_reflection_coef]]

color_trace(self, a_scene, a_reflection_coef, a_ray, current_color) ==
    LET hit == trace(self, a_scene, a_ray) IN
    IF hit.some
    THEN color_trace_hit(self, a_scene, a_reflection_coef, a_ray, current_color, hit)
    ELSE color_trace_miss(a_reflection_coef, a_ray, current_color)

\* line 79; loop_cond_ignores_weight drops the second test, loop_cond_inclusive
\* writes the first with <=
loop_cond_ignores_weight(self, a_depth, a_reflection_coef) ==
    a_depth < self.max_depth
loop_cond_inclusive(self, a_depth, a_reflection_coef) ==
    a_depth <= self.max_depth /\ a_reflection_coef > 0
loop_cond(self, a_depth, a_reflection_coef) ==
    a_depth < self.max_depth /\ a_reflection_coef > 0

\* lines 58-75: the primary ray of pixel (x, y); tan(fov_rad / 2) = tan(0) = 0
primary_ray(self, a_x, a_y) ==
    LET cam_right == vec3_normalized(vec3_cross(<<0, 1, 0>>, self.direction))
        cam_up == vec3_normalized(vec3_cross(cam_right, self.direction))
        cam_half_width == 0
        cam_half_height == (cam_half_width * self.image_height) \div self.image_width
        pixel_width == (cam_half_width * 2) \div self.image_width
        pixel_height == (cam_half_height * 2) \div self.image_height
        vec_x_pixel == vec3_scale(cam_right, pixel_width * a_x - cam_half_width)
        vec_y_pixel == vec3_scale(cam_up, pixel_height * a_y - cam_half_height)
        vec_translate == vec3_add(vec_x_pixel, vec_y_pixel)
    IN  Ray_new(self.cam_position,
                vec3_normalized(vec3_add(self.direction, vec_translate)))

\* lines 76-78: the locals of one pixel; `carried` is the value the previous
\* pixel left behind, which fresh_coef_carried keeps (a local declared outside
\* the loops)
fresh_color(carried) == <<0, 0, 0>>
fresh_coef_carried(carried) == carried
fresh_coef(carried) == WeightOne

\* lines 85-88: (pixel_color[c] * 255.0) as u8, a saturating cast
quantize(a_pixel_color) ==
    [c \in 1..3 |-> Min(a_pixel_color[c] \div (LightOne * CoefOne * WeightOne), ColorMax)]

-----------------------------------------------------------------------------
\* The inputs: what a caller (src/src/bin.rs) may build and render.

Red == <<255, 0, 0>>
Green == <<0, 255, 0>>
White == <<255, 255, 255>>
Purple == <<100, 0, 100>>

ObjectChoices ==
    { Sphere_new(<<0, 0, 3>>, Red, 1, 2, 1),              \* specular 0.5
      Plane_new(Green, <<0, 0, 2>>, <<0, 0, 2>>, 1, 0),    \* z = 2, tangent to the sphere
      Plane_new(White, <<0, 0, -1>>, <<0, 0, -1>>, 1, 2),  \* z = -1, a mirror
      Plane_new(Purple, <<0, 0, 1>>, <<0, 0, -1>>, 1, 0),  \* z = -1, the other normal
      Plane_new(White, <<0, 0, 1>>, <<0, 0, 4>>, 1, 2) }   \* z = 4, a mirror

LightChoices ==
    { Light_new(<<0, 0, -2>>, 20), Light_new(<<0, 0, -1>>, 200) }

\* a 2 x 2 image, the camera at the origin looking along +z, shadow_bias one unit
ViewChoices ==
    { View_new(2, 2, <<0, 0, 0>>, 0, <<0, 0, 2>>, d, <<50, 100, 200>>, 1) :
          d \in 0..MaxDepth }

-----------------------------------------------------------------------------
\* The state machine.

vars == <<scene, view, pc, x, y, ray, pixel_color, depth, reflection_coef,
          img_buffer, calls, stopped, trail, writes>>

Pixels == (0..(view.image_width - 1)) \X (0..(view.image_height - 1))

Init ==
    /\ scene = [objects |-> <<>>, lights |-> <<>>]
    /\ view \in ViewChoices
    /\ pc = "build"
    /\ x = 0
    /\ y = 0
    /\ ray = Ray_new(ZeroVec, <<0, 0, 1>>)
    /\ pixel_color = <<0, 0, 0>>
    /\ depth = 0
    /\ reflection_coef = WeightOne
    /\ img_buffer = <<>>
    /\ calls = 0
    /\ stopped = FALSE
    /\ trail = <<>>
    /\ writes = <<>>

render_locals == <<x, y, ray, pixel_color, depth, reflection_coef, img_buffer,
                   calls, stopped, trail, writes>>

addObject(object) ==
    /\ pc = "build"
    /\ Len(scene.objects) < MaxObjects
    /\ scene' = [scene EXCEPT !.objects = Append(@, object)]
    /\ UNCHANGED <<view, pc, render_locals>>

addLight(light) ==
    /\ pc = "build"
    /\ Len(scene.lights) < MaxLights
    /\ scene' = [scene EXCEPT !.lights = Append(@, light)]
    /\ UNCHANGED <<view, pc, render_locals>>

\* lines 57-68: the buffer is allocated black and the loops are entered
render_begin ==
    /\ pc = "build"
    /\ img_buffer' = [p \in Pixels |-> <<0, 0, 0>>]
    /\ writes' = [p \in Pixels |-> 0]
    /\ x' = 0
    /\ y' = 0
    /\ pc' = IF view.image_width > 0 /\ view.image_height > 0 THEN "pixel" ELSE "done"
    /\ UNCHANGED <<scene, view, ray, pixel_color, depth, reflection_coef,
                   calls, stopped, trail>>

\* lines 69-78
render_pixel ==
    /\ pc = "pixel"
    /\ ray' = primary_ray(view, x, y)
    /\ pixel_color' = fresh_color(pixel_color)
    /\ depth' = 0
    /\ reflection_coef' = fresh_coef(reflection_coef)
    /\ calls' = 0
    /\ stopped' = FALSE
    /\ trail' = <<>>
    /\ pc' = "loop"
    /\ UNCHANGED <<scene, view, x, y, img_buffer, writes>>

\* lines 79-84: one turn of the while loop
render_bounce ==
    /\ pc = "loop"
    /\ loop_cond(view, depth, reflection_coef)
    /\ LET r == color_trace(view, scene, reflection_coef, ray, pixel_color)
           hit == r.hit
       IN  /\ reflection_coef' = r.reflection_coef
           /\ ray' = r.ray
           /\ pixel_color' = r.current_color
           /\ calls' = calls + 1
           /\ stopped' = ~r.ret
           /\ trail' = IF r.ret
                       THEN Append(trail,
                                [index |-> hit.index, point |-> hit.hit_point,
                                 added |-> [i \in 1..3 |->
                                               r.current_color[i] - pixel_color[i]],
                                 coef |-> r.reflection_coef])
                       ELSE trail
           /\ depth' = IF r.ret THEN depth + 1 ELSE depth
           /\ pc' = IF r.ret THEN "loop" ELSE "write"
    /\ UNCHANGED <<scene, view, x, y, img_buffer, writes>>

\* line 79: the loop condition fails
render_loop_exit ==
    /\ pc = "loop"
    /\ ~loop_cond(view, depth, reflection_coef)
    /\ pc' = "write"
    /\ UNCHANGED <<scene, view, x, y, ray, pixel_color, depth, reflection_coef,
                   img_buffer, calls, stopped, trail, writes>>

\* lines 85-90, and the step of the for loops of lines 67-68
render_put_pixel ==
    /\ pc = "write"
    /\ img_buffer' = [img_buffer EXCEPT ![<<x, y>>] = quantize(pixel_color)]
    /\ writes' = [writes EXCEPT ![<<x, y>>] = @ + 1]
    /\ IF y + 1 < view.image_height
       THEN x' = x /\ y' = y + 1 /\ pc' = "pixel"
       ELSE IF x + 1 < view.image_width
       THEN x' = x + 1 /\ y' = 0 /\ pc' = "pixel"
       ELSE x' = x /\ y' = y /\ pc' = "done"
    /\ UNCHANGED <<scene, view, ray, pixel_color, depth, reflection_coef,
                   calls, stopped, trail>>

Next ==
    \/ \E object \in ObjectChoices : addObject(object)
    \/ \E light \in LightChoices : addLight(light)
    \/ render_begin
    \/ render_pixel
    \/ render_bounce
    \/ render_loop_exit
    \/ render_put_pixel

Spec == Init /\ [][Next]_vars

-----------------------------------------------------------------------------
\* Shared vocabulary of the properties.

\* color_trace is about to be called on `ray`
Calling == pc = "loop" /\ loop_cond(view, depth, reflection_coef)

\* what trace answers for the ray about to be traced
Hit == trace(view, scene, ray)

ObjectIndices == 1..Len(scene.objects)
LightIndices == 1..Len(scene.lights)

Distance(j, a_ray) == intersect(scene.objects[j], a_ray).distance

\* the objects with a distance in (0, +infinity) along a_ray
InReach(a_ray) == { j \in ObjectIndices : Distance(j, a_ray) > 0 /\ Distance(j, a_ray) < INFINITY }

\* the product of the specular coefficients of the first k hits of the pixel
RECURSIVE SpecularProduct(_)
SpecularProduct(k) ==
    IF k = 0 THEN 1
    ELSE scene.objects[trail[k].index].specular * SpecularProduct(k - 1)

\* a point c of the axis lies strictly between the points a and b
StrictlyBetween(c, a, b) == (a < c /\ c < b) \/ (b < c /\ c < a)

\* the whole of an object lies strictly between two points of the axis
LiesBetween(object, a, b) ==
    IF object.kind = "plane"
    THEN StrictlyBetween(object.position[3], a[3], b[3])
    ELSE /\ StrictlyBetween(object.position[3] - object.radius, a[3], b[3])
         /\ StrictlyBetween(object.position[3] + object.radius, a[3], b[3])

\* the light is on the far side of the surface hit at `point` by a_ray: inside
\* the tangent plane of a sphere, beyond a plane
Behind(object, a_ray, point, light) ==
    IF object.kind = "plane"
    THEN vec3_dot(vec3_sub(light.position, point), a_ray.direction) > 0
    ELSE vec3_dot(vec3_sub(light.position, point), vec3_sub(point, object.position)) < 0

\* the bounce loop of one pixel, run on its own from fresh locals
RECURSIVE AlonePixelLoop(_, _, _, _)
AlonePixelLoop(a_ray, a_color, a_coef, a_depth) ==
    IF a_depth < view.max_depth /\ a_coef > 0
    THEN LET r == color_trace(view, scene, a_coef, a_ray, a_color) IN
         IF r.ret
         THEN AlonePixelLoop(r.ray, r.current_color, r.reflection_coef, a_depth + 1)
         ELSE r.current_color
    ELSE a_color

AlonePixel(px, py) ==
    quantize(AlonePixelLoop(primary_ray(view, px, py), <<0, 0, 0>>, WeightOne, 0))

-----------------------------------------------------------------------------
\* C1.  For every pixel the bounce loop ends and calls color_trace at most
\* max_depth times: the first call is made with depth 0 and weight 1.0, a call is
\* made only while depth < max_depth and the weight is > 0, and none is made for
\* the pixel after a call that reported no hit or that left the weight at 0.
\* The loop ends because every turn that stays in it adds one to depth, which
\* never exceeds max_depth; any other turn leaves it.
C1_Counts ==
    /\ calls <= view.max_depth
    /\ calls = depth + (IF stopped THEN 1 ELSE 0)
    /\ pc = "loop" /\ calls = 0 => depth = 0 /\ reflection_coef = WeightOne
    /\ stopped => pc # "loop"

C1_Step ==
    /\ calls' = calls + 1 =>
           /\ depth < view.max_depth
           /\ reflection_coef > 0
           /\ ~stopped
    /\ pc = "loop" /\ reflection_coef = 0 => calls' = calls \/ calls' = 0
    /\ pc = "loop" =>
           \/ pc' = "loop" /\ depth' = depth + 1 /\ depth' <= view.max_depth
           \/ pc' = "write"
           \/ UNCHANGED vars

C1_BounceLoopBounded == [](C1_Counts) /\ [][C1_Step]_vars

\* a pixel whose loop ended because depth reached max_depth, weight still left
C1_Witness ==
    /\ pc = "write"
    /\ view.max_depth = MaxDepth
    /\ calls = MaxDepth
    /\ ~stopped
    /\ reflection_coef > 0

\* C2.  With max_depth = 0 color_trace is never called, nothing is accumulated and
\* every pixel of the buffer is (0, 0, 0).
C2_ZeroDepthIsBlack ==
    view.max_depth = 0 =>
        /\ calls = 0
        /\ trail = <<>>
        /\ pixel_color = <<0, 0, 0>>
        /\ \A p \in DOMAIN img_buffer : img_buffer[p] = <<0, 0, 0>>

\* the render of a lit scene whose primary rays hit an object has ended
C2_Witness ==
    /\ view.max_depth = 0
    /\ pc = "done"
    /\ Len(scene.lights) > 0
    /\ trace(view, scene, primary_ray(view, 0, 0)).some
    /\ \A p \in Pixels : writes[p] = 1

\* C3.  trace returns the object with the smallest distance among those with a
\* distance in (0, +infinity), the first of them in scene order when several share
\* the minimum, with that distance and hit point; it returns None exactly when no
\* object has such a distance.
C3_NearestFirst ==
    pc = "loop" =>
        /\ Hit.some <=> InReach(ray) # {}
        /\ ~Hit.some => Hit = None
        /\ Hit.some =>
               /\ Hit.index \in InReach(ray)
               /\ Hit.dist = Distance(Hit.index, ray)
               /\ Hit.hit_point = intersect(scene.objects[Hit.index], ray).hit_position
               /\ \A j \in InReach(ray) :
                      /\ Hit.dist <= Distance(j, ray)
                      /\ Hit.dist = Distance(j, ray) => Hit.index <= j

\* the nearer of two objects in reach was added second
C3_Witness ==
    /\ pc = "loop"
    /\ InReach(ray) = {1, 2}
    /\ Distance(2, ray) < Distance(1, ray)
    /\ Hit.index = 2

\* C4.  Whenever an object lies strictly between the shaded point and a light,
\* that light adds nothing to the illumination factor.
C4_BetweenShadows ==
    Calling /\ Hit.some =>
        \A l \in LightIndices :
            (\E j \in ObjectIndices :
                 LiesBetween(scene.objects[j], Hit.hit_point, scene.lights[l].position))
            => light_amount(view, scene, scene.objects[Hit.index], Hit.hit_point,
                            scene.lights[l]) = 0

\* C5.  A light behind the surface at the shaded point adds exactly zero.
C5_BehindIsDark ==
    Calling /\ Hit.some =>
        \A l \in LightIndices :
            Behind(scene.objects[Hit.index], ray, Hit.hit_point, scene.lights[l])
            => light_amount(view, scene, scene.objects[Hit.index], Hit.hit_point,
                            scene.lights[l]) = 0

\* C6.  In the rendered image every pixel whose primary ray hits no object holds
\* the background colour.
C6_MissIsBackground ==
    pc = "done" =>
        \A p \in Pixels :
            ~trace(view, scene, primary_ray(view, p[1], p[2])).some
            => img_buffer[p] = view.background

\* C7.  Each pixel is written exactly once, with the value its bounce loop yields
\* when run alone from fresh locals; no other step changes the buffer.
C7_Writes ==
    \A p \in DOMAIN writes :
        /\ writes[p] <= 1
        /\ pc = "done" => writes[p] = 1
        /\ writes[p] = 0 => img_buffer[p] = <<0, 0, 0>>

C7_Step ==
    /\ pc = "write" =>
           /\ img_buffer' = [img_buffer EXCEPT ![<<x, y>>] = AlonePixel(x, y)]
           /\ writes[<<x, y>>] = 0
    /\ pc \notin {"write", "build"} => img_buffer' = img_buffer

C7_PixelsIndependent == [](C7_Writes) /\ [][C7_Step]_vars

\* a finished image whose first and last pixels are lit
C7_Witness ==
    /\ pc = "done"
    /\ \A p \in Pixels : writes[p] = 1
    /\ img_buffer[<<0, 0>>] # <<0, 0, 0>>
    /\ img_buffer[<<1, 1>>] # <<0, 0, 0>>

\* C8.  When trace finds no object, color_trace returns false and leaves the
\* accumulator, the ray and the reflection weight unchanged.
C8_Step ==
    Calling /\ ~Hit.some =>
        /\ stopped'
        /\ calls' = calls + 1
        /\ pixel_color' = pixel_color
        /\ ray' = ray
        /\ reflection_coef' = reflection_coef

C8_MissChangesNothing == [][C8_Step]_vars

\* a miss after a lit hit: the accumulator is not black and the weight is not 1.0
C8_Witness ==
    /\ stopped
    /\ calls >= 2
    /\ pixel_color # <<0, 0, 0>>
    /\ reflection_coef > 0
    /\ reflection_coef < WeightOne

\* C9.  A hit adds object_color x light x lambert x (the weight before the call)
\* and then multiplies the weight by the object's specular coefficient: the k-th
\* hit is weighted by the product of the coefficients of the hits before it, and
\* the weight stays in [0, 1] and never grows.
C9_Weights ==
    pc \in {"loop", "write"} =>
        /\ reflection_coef >= 0
        /\ reflection_coef <= WeightOne
        /\ reflection_coef * Power(CoefOne, Len(trail))
               = WeightOne * SpecularProduct(Len(trail))
        /\ \A k \in 1..Len(trail) :
               /\ trail[k].coef * Power(CoefOne, k) = WeightOne * SpecularProduct(k)
               /\ trail[k].coef <= (IF k = 1 THEN WeightOne ELSE trail[k - 1].coef)

C9_Step ==
    Calling /\ Hit.some =>
        LET hit_object == scene.objects[Hit.index]
            light == lambert_shade(view, scene, hit_object, Hit.hit_point)
        IN  /\ \A i \in 1..3 :
                   pixel_color'[i] = pixel_color[i]
                       + hit_object.color[i] * light * hit_object.lambert * reflection_coef
            /\ reflection_coef' * CoefOne = reflection_coef * hit_object.specular
            /\ reflection_coef' <= reflection_coef
            /\ Len(trail') = Len(trail) + 1

C9_WeightIsSpecularProduct == [](C9_Weights) /\ [][C9_Step]_vars

\* three hits: the second, lit, made with a weight of 1/2, the third leaving 1/4
C9_Witness ==
    /\ Len(trail) = 3
    /\ trail[1].coef * 2 = WeightOne
    /\ trail[2].added # <<0, 0, 0>>
    /\ trail[3].coef * 4 = WeightOne

\* C10.  A light is blocked only by an intersection nearer to the shaded point
\* than the light: one at or beyond the light's distance from the point never
\* blocks it.  The shadow ray starts shadow_bias from the point, so an intersect
\* d of the shadow ray is d + shadow_bias from the point.
C10_BlockedOnlyByNearer ==
    Calling /\ Hit.some =>
        \A l \in LightIndices :
            LET light == scene.lights[l]
                shade == shade_light(view, scene, scene.objects[Hit.index],
                                     Hit.hit_point, light)
                dir_to_light == vec3_normalized(vec3_sub(light.position, Hit.hit_point))
                dist_to_light == vec3_len(vec3_sub(light.position, Hit.hit_point))
                shadow_ray ==
                    Ray_new(vec3_add(Hit.hit_point,
                                     vec3_scale(dir_to_light, view.shadow_bias)),
                            dir_to_light)
            IN  shade.blocked =>
                    \E j \in InReach(shadow_ray) :
                        Distance(j, shadow_ray) + view.shadow_bias < dist_to_light

====
